---- MODULE Spec2Model ----
(***************************************************************************)
(* Connection lifecycle of server.js: the module-level pool / isConnected  *)
(* / connectionRetries variables, connectDB with its retry recursion and   *)
(* keepalive interval, the /api/health and /api/query handlers and the     *)
(* SIGTERM/SIGINT shutdown handler.                                        *)
(*                                                                         *)
(* Node runs one callback at a time: every action below is one synchronous *)
(* segment of the code, from the resumption of an await (or the arrival of *)
(* a request, timer tick or signal) to the next await or return.  A call   *)
(* of the async function connectDB runs its synchronous prefix inside the  *)
(* caller's segment, so ConnectDBCall is part of the calling action.       *)
(*                                                                         *)
(* pg's Pool is the environment.  pool.connect() and client.query() on an  *)
(* open pool succeed or fail as the database pleases; pool.connect() on a  *)
(* pool whose end() was called rejects; a second end() on the same pool    *)
(* rejects; end() resolves once every client of the pool has come back.    *)
(*                                                                         *)
(* A liveness probe is the pair await pool.connect(); await client.query(): *)
(* the code changes nothing between the two awaits, so the pair is one     *)
(* pending state ("probe") with three outcomes: both resolve, the acquire  *)
(* rejects, or the query rejects (with the client checked out).            *)
(***************************************************************************)
EXTENDS Naturals, FiniteSets

\* ------------------------------------------------------------- bounds
MaxPools == 2      \* Pool objects alive (still referenced) at once
MaxSeqs == 2       \* connectDB call chains in flight at once
MaxTicks == 1      \* keepalive callbacks in flight at once
MaxTimers == 2     \* setInterval timers counted in one run

\* ------------------------------------------------------------- program constants
requiredEnvVars == {"VITE_AZURE_DB_HOST", "VITE_AZURE_DB_NAME",
                    "VITE_AZURE_DB_USER", "VITE_AZURE_DB_PASSWORD"}
MAX_RETRIES == 5

\* error.code of a rejected pool.connect() / client.query()
ErrorCodes == {"ECONNRESET", "57P01", "OTHER"}

VARIABLES
    started,            \* startServer() has run its synchronous part
    missingEnvVars,     \* requiredEnvVars.filter(v => !process.env[v])
    pool,               \* 0 is null, else the id of the Pool object
    isConnected,
    connectionRetries,
    poolState,          \* per Pool object: "none" (no such object), "open",
                        \* "ending" (end() called), "ended" (end() resolved)
    leaked,             \* per Pool object: a client was acquired and will never be released
    timers,             \* setInterval timers installed (none is ever cleared)
    seq,                \* connectDB call chains (a call and the retries it returns)
    ka,                 \* keepalive callbacks
    health,             \* the GET /api/health handler
    query,              \* the POST /api/query handler
    res,                \* the HTTP response sent by the last segment (NoResponse: none)
    sd,                 \* shutdown handlers (one per signal received)
    exited,             \* process.exit was called
    exitCode            \* its argument

vars == <<started, missingEnvVars, pool, isConnected, connectionRetries, poolState,
          leaked, timers, seq, ka, health, query, res, sd, exited, exitCode>>

Pools == 1..MaxPools
Seqs == 1..MaxSeqs
Ticks == 1..MaxTicks
Signals == 1..2     \* SIGTERM and SIGINT

\* A connectDB chain.  pc: "idle" (no call), "end" (await pool.end()), "probe"
\* (await pool.connect(), await client.query('SELECT 1')), "delay" (await the
\* RETRY_DELAY timeout).  p: the pool awaited on (0: the awaited promise is already
\* rejected).  solo0 and attempts are bookkeeping: solo0 says that connectionRetries
\* was 0 at the first call of the chain and that no other chain has been in flight
\* since; attempts counts the pools the chain constructed while solo0 holds.
IdleSeq == [pc |-> "idle", p |-> 0, solo0 |-> FALSE, attempts |-> 0]
\* A keepalive callback, a request handler or a shutdown handler: pc and awaited pool.
IdleTask == [pc |-> "idle", p |-> 0]
\* No response yet.  route: "health" or "query"; status: the HTTP status; state,
\* database, hasDbConfig: the health body's status, database and
\* environment.hasDbConfig; acquired, released: the query handler's pool.connect()
\* resolutions and client.release() calls; error: the code of the error it caught.
NoResponse == [route |-> "none", status |-> 0, state |-> "none", database |-> "none",
               hasDbConfig |-> FALSE, acquired |-> 0, released |-> 0, error |-> "none"]

Init ==
    /\ started = FALSE
    /\ missingEnvVars \in SUBSET requiredEnvVars
    /\ pool = 0
    /\ isConnected = FALSE
    /\ connectionRetries = 0
    /\ poolState = [i \in Pools |-> "none"]
    /\ leaked = [i \in Pools |-> FALSE]
    /\ timers = 0
    /\ seq = [s \in Seqs |-> IdleSeq]
    /\ ka = [t \in Ticks |-> IdleTask]
    /\ health = IdleTask
    /\ query = IdleTask
    /\ res = NoResponse
    /\ sd = [g \in Signals |-> IdleTask]
    /\ exited = FALSE
    /\ exitCode = 0

\* ------------------------------------------------------------- pg.Pool (environment)
PoolsLeft == \E i \in Pools : poolState[i] = "none"
NewPoolId == CHOOSE i \in Pools :
                 poolState[i] = "none" /\ \A j \in Pools : j < i => poolState[j] # "none"

\* The tasks that wait for, or hold, a client of Pool object p.
Holders(p) ==
      Cardinality({s \in Seqs : seq[s].pc = "probe" /\ seq[s].p = p})
    + Cardinality({t \in Ticks : ka[t].pc = "probe" /\ ka[t].p = p})
    + (IF health.pc = "probe" /\ health.p = p THEN 1 ELSE 0)
    + (IF query.pc = "probe" /\ query.p = p THEN 1 ELSE 0)

\* pool.end(): the first call starts the drain, a later one rejects.
\* EndTarget is the pool whose drain the caller awaits (0: the promise is rejected).
EndTarget(p) == IF poolState[p] = "open" THEN p ELSE 0
EndState(p) == IF poolState[p] = "open" THEN [poolState EXCEPT ![p] = "ending"] ELSE poolState
EndSettled(p) == IF p = 0 THEN TRUE ELSE poolState[p] = "ended"

\* pool.connect() on the installed pool: the pool the pending acquire belongs to
\* (0: end() was already called on the pool, the promise is rejected).
AcquireTarget == IF poolState[pool] = "open" THEN pool ELSE 0

\* A Pool object that neither the variable pool nor a pending await refers to can no
\* longer be reached by the program: it is forgotten and its id is free again.
\* Collect(ps, lk) sets poolState and leaked from their values ps and lk at the end of
\* the segment; it reads the new values of the variables that refer to pools.
Refs(pl, sq, k, h, q, d) ==
    {pl, h.p, q.p} \cup {sq[s].p : s \in Seqs} \cup {k[t].p : t \in Ticks}
                   \cup {d[g].p : g \in Signals}
Collect(ps, lk) ==
    LET live == Refs(pool', seq', ka', health', query', sd') IN
    /\ poolState' = [i \in Pools |-> IF i \in live THEN ps[i] ELSE "none"]
    /\ leaked' = [i \in Pools |-> i \in live /\ lk[i]]

\* The drain of an ending pool finishes when all its clients have come back.
Drained(p) ==
    /\ ~exited
    /\ poolState[p] = "ending"
    /\ ~leaked[p]
    /\ Holders(p) = 0
    /\ res' = NoResponse
    /\ UNCHANGED <<started, missingEnvVars, pool, isConnected, connectionRetries,
                   timers, seq, ka, health, query, sd, exited, exitCode>>
    /\ Collect([poolState EXCEPT ![p] = "ended"], leaked)

\* ------------------------------------------------------------- connectDB
\* Lines 42 and 65 testing that every variable is missing instead of any.
ConfigMissingAll == missingEnvVars = requiredEnvVars

\* Lines 42, 65 and 127: missingEnvVars.length > 0.
ConfigMissing == missingEnvVars # {}

createPool == IF ConfigMissing THEN 0 ELSE NewPoolId

HasFreeSeq == \E s \in Seqs : seq[s].pc = "idle"
FreeSeq == CHOOSE s \in Seqs : seq[s].pc = "idle" /\ \A j \in Seqs : j < s => seq[j].pc # "idle"

\* connectDB returns: the chain of slot s is over.
Return(s, sq) == [sq EXCEPT ![s] = IdleSeq]

\* Lines 72-76: pool = createPool(); if (!pool) return false; await pool.connect().
\* The result is the value of <<seq, pool, poolState>> at the await.
CreateAndProbe(s, sq, ps) ==
    LET np == createPool IN
    IF np = 0
    THEN [seq |-> Return(s, sq), pool |-> 0, poolState |-> ps]
    ELSE [seq |-> [sq EXCEPT ![s].pc = "probe", ![s].p = np,
                             ![s].attempts = IF sq[s].solo0 THEN @ + 1 ELSE 0],
          pool |-> np,
          poolState |-> [ps EXCEPT ![np] = "open"]]

\* Lines 64-76: the synchronous prefix of a connectDB() call made by the chain of
\* slot s when the caller sees isConnected = conn.
connectDB(s, sq, conn) ==
    IF conn THEN [seq |-> Return(s, sq), pool |-> pool, poolState |-> poolState]
    ELSE IF ConfigMissing
    THEN [seq |-> Return(s, sq), pool |-> pool, poolState |-> poolState]
    ELSE IF pool # 0
    THEN [seq |-> [sq EXCEPT ![s].pc = "end", ![s].p = EndTarget(pool)],
          pool |-> pool,
          poolState |-> EndState(pool)]
    ELSE CreateAndProbe(s, sq, poolState)

\* A connectDB() call that constructs a Pool in its synchronous prefix.
NeedsPool(conn) == ~conn /\ ~ConfigMissing /\ pool = 0

\* A fresh connectDB() call (startServer, keepalive, health, query): a new chain in a
\* free slot; the chains already in flight are no longer alone.
NewChain ==
    LET s == FreeSeq
        alone == \A t \in Seqs : seq[t].pc = "idle"
    IN [t \in Seqs |->
           IF t = s THEN [IdleSeq EXCEPT !.solo0 = (alone /\ connectionRetries = 0)]
           ELSE IF seq[t].pc = "idle" THEN seq[t]
           ELSE [seq[t] EXCEPT !.solo0 = FALSE, !.attempts = 0]]
CanSpawn(conn) == HasFreeSeq /\ (NeedsPool(conn) => PoolsLeft)
Spawn(conn) == connectDB(FreeSeq, NewChain, conn)

Install(r) == seq' = r.seq /\ pool' = r.pool

\* Line 242: startServer() calls connectDB() once the module has been loaded.
StartServer ==
    /\ ~started
    /\ started' = TRUE
    /\ CanSpawn(isConnected)
    /\ Install(Spawn(isConnected))
    /\ res' = NoResponse
    /\ UNCHANGED <<missingEnvVars, isConnected, connectionRetries, timers, ka, health,
                   query, sd, exited, exitCode>>
    /\ Collect(Spawn(isConnected).poolState, leaked)

\* Lines 69-76: the await of pool.end() is over (its rejection is swallowed).
EndResume(s) ==
    /\ ~exited
    /\ seq[s].pc = "end"
    /\ EndSettled(seq[s].p)
    /\ PoolsLeft
    /\ Install(CreateAndProbe(s, seq, poolState))
    /\ res' = NoResponse
    /\ UNCHANGED <<started, missingEnvVars, isConnected, connectionRetries, timers, ka,
                   health, query, sd, exited, exitCode>>
    /\ Collect(CreateAndProbe(s, seq, poolState).poolState, leaked)

\* Line 104 with the bound off by one (connectionRetries < MAX_RETRIES - 1).
CanRetryEarly(r) == r + 1 < MAX_RETRIES

\* Line 104.
CanRetry(r) == r < MAX_RETRIES

\* Lines 99-113: the catch block of connectDB.
Catch(s) ==
    /\ isConnected' = FALSE
    /\ pool' = 0
    /\ IF CanRetry(connectionRetries)
       THEN /\ connectionRetries' = connectionRetries + 1
            /\ seq' = [seq EXCEPT ![s].pc = "delay", ![s].p = 0]
       ELSE /\ connectionRetries' = connectionRetries
            /\ seq' = Return(s, seq)

\* Line 76 rejects.
ConnectFail(s) ==
    /\ ~exited
    /\ seq[s].pc = "probe"
    /\ Catch(s)
    /\ res' = NoResponse
    /\ UNCHANGED <<started, missingEnvVars, timers, ka, health, query, sd, exited,
                   exitCode>>
    /\ Collect(poolState, leaked)

\* Line 77 rejects: the client of line 76 is not released.
QueryFail(s) ==
    /\ ~exited
    /\ seq[s].pc = "probe"
    /\ Catch(s)
    /\ res' = NoResponse
    /\ UNCHANGED <<started, missingEnvVars, timers, ka, health, query, sd, exited,
                   exitCode>>
    /\ Collect(poolState, [leaked EXCEPT ![seq[s].p] = TRUE])

\* Lines 76-98 without the reset of line 81 (connectionRetries = 0).
ProbeOKNoReset(s) ==
    /\ ~exited
    /\ seq[s].pc = "probe"
    /\ timers < MaxTimers
    /\ isConnected' = TRUE
    /\ connectionRetries' = connectionRetries
    /\ timers' = timers + 1
    /\ seq' = Return(s, seq)
    /\ res' = NoResponse
    /\ UNCHANGED <<started, missingEnvVars, pool, ka, health, query, sd, exited,
                   exitCode>>
    /\ Collect(poolState, leaked)

\* Lines 76-98: the probe succeeded; the keepalive interval is installed.
ProbeOK(s) ==
    /\ ~exited
    /\ seq[s].pc = "probe"
    /\ timers < MaxTimers
    /\ isConnected' = TRUE
    /\ connectionRetries' = 0
    /\ timers' = timers + 1
    /\ seq' = Return(s, seq)
    /\ res' = NoResponse
    /\ UNCHANGED <<started, missingEnvVars, pool, ka, health, query, sd, exited,
                   exitCode>>
    /\ Collect(poolState, leaked)

\* Lines 107-108: the RETRY_DELAY timeout fires and connectDB() is called again.
DelayResume(s) ==
    /\ ~exited
    /\ seq[s].pc = "delay"
    /\ NeedsPool(isConnected) => PoolsLeft
    /\ Install(connectDB(s, seq, isConnected))
    /\ res' = NoResponse
    /\ UNCHANGED <<started, missingEnvVars, isConnected, connectionRetries, timers, ka,
                   health, query, sd, exited, exitCode>>
    /\ Collect(connectDB(s, seq, isConnected).poolState, leaked)

\* ------------------------------------------------------------- keepalive (lines 85-96)
\* The interval fires: if (!pool) return; await pool.connect().
Tick(t) ==
    /\ ~exited
    /\ timers > 0
    /\ ka[t].pc = "idle"
    /\ ka' = IF pool = 0 THEN ka
             ELSE [ka EXCEPT ![t] = [pc |-> "probe", p |-> AcquireTarget]]
    /\ res' = NoResponse
    /\ UNCHANGED <<started, missingEnvVars, pool, isConnected, connectionRetries, poolState,
                   leaked, timers, seq, health, query, sd, exited, exitCode>>

\* Lines 88-90 resolve.
KaOK(t) ==
    /\ ~exited
    /\ ka[t].pc = "probe"
    /\ ka[t].p # 0
    /\ ka' = [ka EXCEPT ![t] = IdleTask]
    /\ res' = NoResponse
    /\ UNCHANGED <<started, missingEnvVars, pool, isConnected, connectionRetries, timers,
                   seq, health, query, sd, exited, exitCode>>
    /\ Collect(poolState, leaked)

\* Lines 91-95: isConnected = false; connectDB().  lk is leaked at the end of the try block.
KaCatch(t, lk) ==
    /\ CanSpawn(FALSE)
    /\ isConnected' = FALSE
    /\ Install(Spawn(FALSE))
    /\ ka' = [ka EXCEPT ![t] = IdleTask]
    /\ res' = NoResponse
    /\ UNCHANGED <<started, missingEnvVars, connectionRetries, timers, health, query,
                   sd, exited, exitCode>>
    /\ Collect(Spawn(FALSE).poolState, lk)

\* Line 88 rejects.
KaConnectFail(t) ==
    /\ ~exited
    /\ ka[t].pc = "probe"
    /\ KaCatch(t, leaked)

\* Line 89 rejects: the client of line 88 is not released.
KaQueryFail(t) ==
    /\ ~exited
    /\ ka[t].pc = "probe"
    /\ ka[t].p # 0
    /\ KaCatch(t, [leaked EXCEPT ![ka[t].p] = TRUE])

\* ------------------------------------------------------------- GET /api/health (lines 117-154)
\* Lines 119-129: the health object.
Snapshot ==
    [NoResponse EXCEPT !.route = "health",
                       !.state = "healthy",
                       !.database = IF isConnected THEN "connected" ELSE "disconnected",
                       !.hasDbConfig = ~ConfigMissing]

\* Line 146 answering 503 when the probe failed.
HealthRespondFault(h) == [h EXCEPT !.status = IF h.database = "error" THEN 503 ELSE 200]

\* Line 146: res.status(200).json(health).  (The outer catch of lines 147-153, taken
\* only if building or sending this response throws, answers with status 200 too.)
HealthRespond(h) == [h EXCEPT !.status = 200]

\* Lines 119-133, 146: the probe is started when connected, else the snapshot is sent.
HealthRequest ==
    /\ ~exited
    /\ started
    /\ health.pc = "idle"
    /\ IF isConnected /\ pool # 0
       THEN /\ health' = [pc |-> "probe", p |-> AcquireTarget]
            /\ res' = NoResponse
       ELSE /\ health' = health
            /\ res' = HealthRespond(Snapshot)
    /\ UNCHANGED <<started, missingEnvVars, pool, isConnected, connectionRetries, poolState,
                   leaked, timers, seq, ka, query, sd, exited, exitCode>>

\* Lines 133-136, 146: the probe succeeded.  The probe is started only when
\* isConnected holds, so the snapshot of line 123 says "connected" as well.
HealthOK ==
    /\ ~exited
    /\ health.pc = "probe"
    /\ health.p # 0
    /\ health' = IdleTask
    /\ res' = HealthRespond([Snapshot EXCEPT !.database = "connected"])
    /\ UNCHANGED <<started, missingEnvVars, pool, isConnected, connectionRetries, timers,
                   seq, ka, query, sd, exited, exitCode>>
    /\ Collect(poolState, leaked)

\* Lines 137-146: the probe failed.  lk is leaked at the end of the inner try block.
HealthCatch(lk) ==
    /\ CanSpawn(FALSE)
    /\ isConnected' = FALSE
    /\ Install(Spawn(FALSE))
    /\ health' = IdleTask
    /\ res' = HealthRespond([Snapshot EXCEPT !.database = "error"])
    /\ UNCHANGED <<started, missingEnvVars, connectionRetries, timers, ka, query, sd,
                   exited, exitCode>>
    /\ Collect(Spawn(FALSE).poolState, lk)

\* Line 133 rejects.
HealthConnectFail ==
    /\ ~exited
    /\ health.pc = "probe"
    /\ HealthCatch(leaked)

\* Line 134 rejects: the client of line 133 is not released.
HealthQueryFail ==
    /\ ~exited
    /\ health.pc = "probe"
    /\ health.p # 0
    /\ HealthCatch([leaked EXCEPT ![health.p] = TRUE])

\* ------------------------------------------------------------- POST /api/query (lines 157-200)
\* Line 158 without the isConnected test (if (!pool)).
NotConnectedPoolOnly == pool = 0

\* Line 158.
NotConnected == ~isConnected \/ pool = 0

\* Line 186 without the 57P01 test (error.code === 'ECONNRESET' only).
IsConnResetOnly(code) == code = "ECONNRESET"

\* Line 186 taking every error for a connection reset.
IsConnResetAny(code) == code \in ErrorCodes

\* Line 186.
IsConnReset(code) == code = "ECONNRESET" \/ code = "57P01"

\* Lines 195-199 with the release at the end of the try block instead of in finally.
FinallyOnSuccess(r) == [r EXCEPT !.released = IF r.acquired = 1 /\ r.status = 200 THEN 1 ELSE 0]

\* Lines 195-199: finally { if (client) client.release() }; client is set when the
\* acquire of line 176 resolved (acquired = 1).
Finally(r) == [r EXCEPT !.released = IF r.acquired = 1 THEN 1 ELSE 0]

QueryResponse(status, acquired) ==
    [NoResponse EXCEPT !.route = "query", !.status = status, !.acquired = acquired]

\* Lines 158-176: hasText is whether req.body.text is given.
QueryRequest(hasText) ==
    /\ ~exited
    /\ started
    /\ query.pc = "idle"
    /\ IF NotConnected
       THEN query' = query /\ res' = QueryResponse(503, 0)
       ELSE IF ~hasText
       THEN query' = query /\ res' = Finally(QueryResponse(400, 0))
       ELSE query' = [pc |-> "probe", p |-> AcquireTarget] /\ res' = NoResponse
    /\ UNCHANGED <<started, missingEnvVars, pool, isConnected, connectionRetries, poolState,
                   leaked, timers, seq, ka, health, sd, exited, exitCode>>

\* Lines 176-182, 195-199: the acquire and the query resolve.
QueryOK ==
    /\ ~exited
    /\ query.pc = "probe"
    /\ query.p # 0
    /\ query' = IdleTask
    /\ res' = Finally(QueryResponse(200, 1))
    /\ UNCHANGED <<started, missingEnvVars, pool, isConnected, connectionRetries, timers,
                   seq, ka, health, sd, exited, exitCode>>
    /\ Collect(poolState, leaked)

\* Lines 183-199: the catch block and the finally block, for an error with this code
\* raised when client is set (acquired = 1) or not (0).
QueryCatch(code, acquired) ==
    /\ query' = IdleTask
    /\ res' = Finally([QueryResponse(500, acquired) EXCEPT !.error = code])
    /\ UNCHANGED <<started, missingEnvVars, connectionRetries, timers, ka, health, sd,
                   exited, exitCode>>
    /\ IF IsConnReset(code)
       THEN /\ CanSpawn(FALSE)
            /\ isConnected' = FALSE
            /\ Install(Spawn(FALSE))
            /\ Collect(Spawn(FALSE).poolState, leaked)
       ELSE /\ UNCHANGED <<isConnected, seq, pool>>
            /\ Collect(poolState, leaked)

\* Line 176 rejects (an acquire on an ended pool rejects with an error without code).
QueryConnectFail(code) ==
    /\ ~exited
    /\ query.pc = "probe"
    /\ query.p = 0 => code = "OTHER"
    /\ QueryCatch(code, 0)

\* Line 177 rejects.
QueryExecFail(code) ==
    /\ ~exited
    /\ query.pc = "probe"
    /\ query.p # 0
    /\ QueryCatch(code, 1)

\* ------------------------------------------------------------- shutdown (lines 211-225)
ShuttingDown == \E g \in Signals : sd[g].pc # "idle"

\* A SIGTERM or SIGINT arrives: if (pool) await pool.end(); else process.exit(0).
shutdown(g) ==
    /\ ~exited
    /\ started
    /\ sd[g].pc = "idle"
    /\ \A j \in Signals : j < g => sd[j].pc # "idle"
    /\ res' = NoResponse
    /\ UNCHANGED <<started, missingEnvVars, pool, isConnected, connectionRetries, leaked,
                   timers, seq, ka, health, query>>
    /\ IF pool # 0
       THEN /\ sd' = [sd EXCEPT ![g] = [pc |-> "end", p |-> EndTarget(pool)]]
            /\ poolState' = EndState(pool)
            /\ UNCHANGED <<exited, exitCode>>
       ELSE /\ exited' = TRUE
            /\ exitCode' = 0
            /\ UNCHANGED <<sd, poolState>>

\* Lines 215-221: pool.end() resolved or rejected; process.exit(0).
ShutdownExit(g) ==
    /\ ~exited
    /\ sd[g].pc = "end"
    /\ EndSettled(sd[g].p)
    /\ exited' = TRUE
    /\ exitCode' = 0
    /\ res' = NoResponse
    /\ UNCHANGED <<started, missingEnvVars, pool, isConnected, connectionRetries, poolState,
                   leaked, timers, seq, ka, health, query, sd>>

\* ------------------------------------------------------------- specification
Next ==
    \/ StartServer
    \/ \E s \in Seqs : EndResume(s)
    \/ \E s \in Seqs : ConnectFail(s)
    \/ \E s \in Seqs : QueryFail(s)
    \/ \E s \in Seqs : ProbeOK(s)
    \/ \E s \in Seqs : DelayResume(s)
    \/ \E p \in Pools : Drained(p)
    \/ \E t \in Ticks : Tick(t)
    \/ \E t \in Ticks : KaOK(t)
    \/ \E t \in Ticks : KaConnectFail(t)
    \/ \E t \in Ticks : KaQueryFail(t)
    \/ HealthRequest
    \/ HealthOK
    \/ HealthConnectFail
    \/ HealthQueryFail
    \/ \E hasText \in BOOLEAN : QueryRequest(hasText)
    \/ QueryOK
    \/ \E code \in ErrorCodes : QueryConnectFail(code)
    \/ \E code \in ErrorCodes : QueryExecFail(code)
    \/ \E g \in Signals : shutdown(g)
    \/ \E g \in Signals : ShutdownExit(g)

Spec == Init /\ [][Next]_vars

\* The server without HTTP traffic: startup, keepalive and shutdown only.  Every chain
\* in flight once a keepalive interval exists was started by a keepalive failure.
NextKeepalive ==
    \/ StartServer
    \/ \E s \in Seqs : EndResume(s)
    \/ \E s \in Seqs : ConnectFail(s)
    \/ \E s \in Seqs : QueryFail(s)
    \/ \E s \in Seqs : ProbeOK(s)
    \/ \E s \in Seqs : DelayResume(s)
    \/ \E p \in Pools : Drained(p)
    \/ \E t \in Ticks : Tick(t)
    \/ \E t \in Ticks : KaOK(t)
    \/ \E t \in Ticks : KaConnectFail(t)
    \/ \E t \in Ticks : KaQueryFail(t)
    \/ \E g \in Signals : shutdown(g)
    \/ \E g \in Signals : ShutdownExit(g)

SpecKeepalive == Init /\ [][NextKeepalive]_vars

\* ------------------------------------------------------------- properties
InFlight == {s \in Seqs : seq[s].pc # "idle"}
Probing == {s \in Seqs : seq[s].pc = "probe"}
OpenPools == {i \in Pools : poolState[i] = "open"}

\* C1: connectDB calls that overlap while disconnected construct one pool between
\* them: never are two chains both past createPool() and waiting for their probe.
C1_OverlapCreatesOnePool == Cardinality(Probing) <= 1

\* C2: at most one pool is constructed and not yet closed with end(), and the
\* variable pool never lets go of a pool (null or another pool) that end() was not
\* called on.
C2_NoUnclosedPoolDropped ==
    [][/\ Cardinality(OpenPools') <= 1
       /\ (pool # 0 /\ pool' # pool) => poolState[pool] # "open"]_vars

C4_NoProbeDuringReconnect ==
    [][/\ (\E t \in Ticks : ka[t].pc = "idle" /\ ka'[t].pc = "probe") => InFlight = {}
       /\ timers > 0 => Cardinality(InFlight') <= 1]_vars

\* C5: once a shutdown handler has started, no chain starts, no chain leaves its
\* retry delay and no chain reaches a new probe (a new pool).
C5_NoConnectAfterShutdown ==
    [][ShuttingDown =>
          \A s \in Seqs : /\ seq[s].pc = "idle" => seq'[s].pc = "idle"
                          /\ seq[s].pc = "delay" => seq'[s].pc = "delay"
                          /\ seq'[s].pc = "probe" => seq[s].pc = "probe"]_vars

\* C6: the process has exited only if the installed pool, if any, is fully drained.
C6_ExitAfterDrain == exited => (IF pool = 0 THEN TRUE ELSE poolState[pool] = "ended")

\* C7: a query request handled while isConnected is false or pool is null is answered
\* 503 without an acquire, and the query handler only acquires when isConnected holds.
C7_QueryGate ==
    [][(query.pc = "idle" /\ (query'.pc = "probe" \/ res'.route = "query"))
          => /\ (~isConnected \/ pool = 0) => (res'.status = 503 /\ query'.pc = "idle")
             /\ query'.pc = "probe" => (isConnected /\ pool # 0)]_vars

\* C7 witness: 503 answered in state Connecting (a pool is installed, the first
\* probe is pending).
C7_Answered503 ==
    /\ res.route = "query" /\ res.status = 503 /\ res.acquired = 0
    /\ ~isConnected /\ pool # 0 /\ query.pc = "idle"

\* C8: every response of GET /api/health has status 200.
C8_HealthAlways200 == res.route = "health" => res.status = 200

\* C8 witness: the health probe failed and the response reports the fault.
C8_HealthProbeFailed == res.route = "health" /\ res.database = "error" /\ ~isConnected

\* C9: when the query handler finishes, it has released the client exactly once if
\* it acquired one, and not at all otherwise.
C9_ReleasedOnce == res.route = "query" => res.released = res.acquired

\* C9 witness: the query failed after the acquire, and the client was released.
C9_ReleasedAfterError ==
    res.route = "query" /\ res.status = 500 /\ res.acquired = 1 /\ res.released = 1

\* C10: a query failing with a code that is neither ECONNRESET nor 57P01 is answered
\* 500 and changes none of isConnected, pool, connectionRetries, and starts no chain.
C10_GenericErrorFrame ==
    [][(query.pc = "probe" /\ res'.route = "query" /\ res'.error = "OTHER")
          => /\ res'.status = 500
             /\ isConnected' = isConnected
             /\ pool' = pool
             /\ connectionRetries' = connectionRetries
             /\ seq' = seq]_vars

\* C10 witness: a generic failure was answered 500 while the state stays Connected.
C10_GenericErrorAnswered ==
    res.route = "query" /\ res.error = "OTHER" /\ res.status = 500 /\ isConnected /\ pool # 0

\* C11: a query failing with ECONNRESET or 57P01 is answered 500 in the very step
\* that sets isConnected to false and makes the connectDB() call: a chain that was
\* idle is in flight after the step (its pool.end(), probe or delay still pending).
C11_ResetErrorReconnects ==
    [][(query.pc = "probe" /\ res'.route = "query"
            /\ res'.error \in {"ECONNRESET", "57P01"})
          => /\ res'.status = 500
             /\ ~isConnected'
             /\ \E s \in Seqs : seq[s].pc = "idle" /\ seq'[s].pc # "idle"]_vars

\* C11 witness: 57P01 was answered 500 while the chain it started is still pending.
C11_ResetAnswered ==
    /\ res.route = "query" /\ res.error = "57P01" /\ res.status = 500
    /\ ~isConnected /\ InFlight # {}

\* C12: when a required connection variable is missing, no Pool is ever constructed
\* and pool stays null, isConnected stays false, every connectDB() call has returned
\* within the step that made it (no chain pending, no retry counted, no keepalive
\* installed), a health response says database "disconnected" with hasDbConfig false,
\* and a query response is 503.
C12_MissingConfigDisabled ==
    missingEnvVars # {} =>
        /\ pool = 0
        /\ \A i \in Pools : poolState[i] = "none"
        /\ ~isConnected
        /\ InFlight = {} /\ connectionRetries = 0 /\ timers = 0
        /\ res.route = "health" =>
               (res.database = "disconnected" /\ ~res.hasDbConfig /\ res.status = 200)
        /\ res.route = "query" => (res.status = 503 /\ res.acquired = 0)

\* C12 witness: one of the four variables is missing, startServer() has called
\* connectDB(), and GET /api/health was answered.
C12_MissingConfigHealth ==
    /\ Cardinality(missingEnvVars) = 1 /\ started
    /\ res.route = "health" /\ res.database = "disconnected" /\ ~res.hasDbConfig

\* C13: a health response that reports a failed probe (database "error") has status
\* 200, leaves isConnected false, and its status field is not "healthy".
C13_ProbeFailureDegraded ==
    (res.route = "health" /\ res.database = "error")
        => (res.status = 200 /\ ~isConnected /\ res.state # "healthy")

\* The retry budget is exhausted and the state has settled at Disconnected: the last
\* chain has returned false, pool is null, no probe is pending and no shutdown runs.
SettledDisconnected ==
    /\ started /\ ~exited /\ ~ShuttingDown
    /\ ~isConnected /\ pool = 0 /\ connectionRetries = MAX_RETRIES
    /\ InFlight = {}
    /\ query.pc = "idle" /\ health.pc = "idle" /\ \A t \in Ticks : ka[t].pc = "idle"

\* C14: a POST /api/query handled in that settled state starts a fresh connect
\* sequence: a chain is in flight once the request has been answered.
C14_QueryStartsFreshSequence ==
    [][(SettledDisconnected /\ res'.route = "query") => InFlight' # {}]_vars

\* The promise of pool.end() on Pool object p can never settle: the drain waits for
\* a client that no code path will release.
EndNeverSettles(p) == IF p = 0 THEN FALSE ELSE poolState[p] = "ending" /\ leaked[p]

\* C15: every chain in flight can still return: none is suspended at line 69 on a
\* pool.end() that can never settle.
C15_ChainsCanReturn == \A s \in Seqs : seq[s].pc = "end" => ~EndNeverSettles(seq[s].p)

\* C16: isConnected true implies connectionRetries = 0, and connectionRetries stays
\* within 0..MAX_RETRIES, whatever chains overlap.
C16_RetryCounterRange ==
    /\ isConnected => connectionRetries = 0
    /\ connectionRetries \in 0..MAX_RETRIES

\* C16 witness: connected again with the counter back at 0 while another chain,
\* which raised the counter before the success, is still waiting to retry.
C16_ResetWhileOverlapping ==
    /\ isConnected /\ connectionRetries = 0 /\ timers > 0
    /\ \E s \in Seqs : seq[s].pc = "delay"

\* C17: a shutdown handler that has started can still reach process.exit(0): it is
\* not suspended at line 215 on a pool.end() that can never settle; and an exit
\* made is an exit with code 0.
C17_ShutdownCanExit ==
    /\ \A g \in Signals : sd[g].pc = "end" => ~EndNeverSettles(sd[g].p)
    /\ exited => exitCode = 0

\* C18: isConnected true implies that a pool is installed: the state "isConnected
\* true with pool null" is unreachable.  (The claim also says that end() was not
\* called on that pool.)
C18_ConnectedHasPool == isConnected => pool # 0

\* C19: at most one keepalive interval timer is installed.
C19_OneKeepaliveTimer == timers <= 1

\* C20: no liveness probe (connectDB's, the keepalive's, the health handler's) leaves
\* its client checked out: no Pool object the program still refers to has a client
\* that was acquired by a probe and will never be released.
C20_ProbesRelease == \A i \in Pools : ~leaked[i]

====
